---- MODULE Spec2Model ----
(***************************************************************************)
(* Model of src/src/language_models/trainer.py: the Trainer object (its    *)
(* fields, train(), train_batch(), eval(), save_model(), _set_optimizer()) *)
(* and the module-level helper _batch_loss().                              *)
(*                                                                         *)
(* Three specifications:                                                   *)
(*   Spec      the Trainer object driven by a caller that constructs it,   *)
(*             may assign its fields, and calls train() and train_batch(); *)
(*   SpecEval  the same Trainer with a caller that calls eval();           *)
(*   SpecLoss  _batch_loss() run statement by statement on inputs drawn    *)
(*             from bounded sets.                                          *)
(***************************************************************************)
EXTENDS Integers, Sequences, FiniteSets, TLC

\* ---------------------------------------------------------------- bounds
MaxBatch == 3        \* largest batch size (len(target_lengths)) in SpecLoss
MaxLen == 2          \* largest answer length in SpecLoss
MaxT == 3            \* largest len(outputs) in SpecLoss
MaxBatches == 2      \* largest number of batches a loader yields
MaxEpochs == 2       \* largest params[EPOCHS]
MaxSaveEvery == 2    \* largest integer save_model_every
MaxPrintEvery == 1   \* largest print_every
MaxDirectCalls == 1  \* direct calls of train_batch() by the caller

\* ------------------------------------------------------------ _batch_loss
VARIABLES
  bl_target_lengths, \* argument target_lengths (sequence of Nat)
  bl_T,              \* len(outputs)
  bl_W,              \* number of columns of targets
  bl_idx,            \* loop variable idx
  bl_l,              \* the array l (remaining lengths)
  bl_masks,          \* bl_masks[k]: the examples selected by idxes at the k-th executed step
  bl_pc              \* "off" | "loop" | "done" | "IndexError" | "ZeroDivisionError"

blvars == <<bl_target_lengths, bl_T, bl_W, bl_idx, bl_l, bl_masks, bl_pc>>

RECURSIVE SeqMax(_)
SeqMax(s) == IF s = <<>> THEN 0
             ELSE LET m == SeqMax(Tail(s)) IN IF Head(s) > m THEN Head(s) ELSE m

\* line 181: idxes = l > 0
ActiveMaskOffByOne(l) == {i \in DOMAIN l : l[i] >= 0}
ActiveMask(l) == {i \in DOMAIN l : l[i] > 0}

\* line 183: l -= 1 (every element, active or not)
Decrement(l) == [i \in DOMAIN l |-> l[i] - 1]

\* line 180: for idx in range(len(target_lengths))
LoopBound(target_lengths, T) == Len(target_lengths)

\* lines 178-179: the state of _batch_loss before the loop
BatchLossEnter(target_lengths, T, W) ==
  [lengths |-> target_lengths, T |-> T, W |-> W, idx |-> 0,
   l |-> target_lengths, masks |-> <<>>, pc |-> "loop"]

\* lines 180-184: one iteration of the loop, or the return statement
BatchLossBody(s) ==
  IF s.idx < LoopBound(s.lengths, s.T)
  THEN \* line 182: outputs[idx] and targets[:, idx] are indexed before criterion runs
       IF s.idx >= s.T \/ s.idx >= s.W
       THEN [s EXCEPT !.pc = "IndexError"]
       ELSE [s EXCEPT !.masks = Append(@, ActiveMask(s.l)),
                      !.l = Decrement(s.l),
                      !.idx = @ + 1]
  ELSE \* line 184: loss / len(outputs)
       IF s.T = 0 THEN [s EXCEPT !.pc = "ZeroDivisionError"]
       ELSE [s EXCEPT !.pc = "done"]

RECURSIVE BatchLossRun(_)
BatchLossRun(s) == IF s.pc # "loop" THEN s ELSE BatchLossRun(BatchLossBody(s))

\* _batch_loss as a whole: its outcome for a batch
BatchLoss(target_lengths, T, W) == BatchLossRun(BatchLossEnter(target_lengths, T, W)).pc

blState == [lengths |-> bl_target_lengths, T |-> bl_T, W |-> bl_W, idx |-> bl_idx,
            l |-> bl_l, masks |-> bl_masks, pc |-> bl_pc]

\* answer_lengths of the batches _batch_loss is run on: a loader yields
\* non-empty batches; a length may be 0
LengthSeqs == UNION {[1..n -> 0..MaxLen] : n \in 1..MaxBatch}

BatchLossStep ==
  /\ bl_pc = "loop"
  /\ LET n == BatchLossBody(blState) IN
       /\ bl_idx' = n.idx
       /\ bl_l' = n.l
       /\ bl_masks' = n.masks
       /\ bl_pc' = n.pc
  /\ UNCHANGED <<bl_target_lengths, bl_T, bl_W>>

BlOff ==
  /\ bl_target_lengths = <<>> /\ bl_T = 0 /\ bl_W = 0
  /\ bl_idx = 0 /\ bl_l = <<>> /\ bl_masks = <<>> /\ bl_pc = "off"

\* ---------------------------------------------------------------- Trainer
VARIABLES
  dataloader,        \* self.dataloader: the batches of the training loader, in order
  dev_loader,        \* constructor argument dev_loader: the batches of the dev set
  ctor_params,       \* constructor argument params
  save_model_every,  \* self.save_model_every
  print_every,       \* self.print_every
  model,             \* self.model
  optimizer,         \* self.optimizer
  params,            \* self.params
  loss,              \* self.loss      (history of batch losses)
  perplexity,        \* self.perplexity (history of batch perplexities)
  assigned,          \* the caller assigned self.model / self.params after __init__
  pc,                \* "idle" | "train_batches" | "eval_batches"
  epoch, batch_itr,  \* loop variables of train() / eval()
  bound,             \* local names of train() bound so far
  trainResult,       \* "none" | "running" | "done" | the error train() raised
  trainErrAt,        \* where train() raised: "" | "set_optimizer" | "dispatch" | "call" | "batch" | "save" | "decay"
  trainSteps,        \* train_batch() calls made by train() that returned
  trainFetched,      \* batches train() took from its loader
  saveAttempts,      \* save_model() calls (all callers)
  savedDirs,         \* checkpoint directories created
  artifacts,         \* artifacts written into checkpoint directories
  decayRan,          \* the branch epoch == DECAY_START_EPOCH of train() has run
  optSteps,          \* optimizer.step() calls
  modelCalls,        \* the calls made to self.model: by whom, which inputs were present
  directCalls,       \* train_batch() calls made by the caller
  evalResult,        \* "none" | "running" | "done" | the error eval() raised
  evalFetched,       \* batches eval() took from a loader
  dev_losses, dev_perplexities, \* locals of eval()
  evalLogs           \* _print_info() calls made by eval()

tvars == <<dataloader, dev_loader, ctor_params, save_model_every, print_every,
           model, optimizer, params, loss, perplexity, assigned, pc, epoch,
           batch_itr, bound, trainResult, trainErrAt, trainSteps, trainFetched,
           saveAttempts, savedDirs, artifacts, decayRan, optSteps, modelCalls,
           directCalls, evalResult, evalFetched, dev_losses, dev_perplexities,
           evalLogs>>

vars == <<blvars, tvars>>

\* constants.py: the three model variants self.model is compared with;
\* "OTHER" stands for any value equal to none of them (None and an LM module included)
Variants == {"LM_ANSWERS", "LM_QUESTION_ANSWERS", "LM_QUESTION_ANSWERS_REVIEWS"}
Tags == Variants \cup {"OTHER"}

\* self.model = None (line 52)
NoneModel == [isNone |-> TRUE, callable |-> FALSE, tag |-> "OTHER"]
\* the LM module built at line 38: callable, has parameters(), equal to no variant constant
LMModel == [isNone |-> FALSE, callable |-> TRUE, tag |-> "OTHER"]
\* values a caller can assign to self.model: callable (a module with parameters(),
\* state_dict()) or not, comparing equal to one of the variant constants or to none
ModelValues == [isNone : {FALSE}, callable : BOOLEAN, tag : Tags]

\* self.optimizer = None (line 53)
NoneOptimizer == [isNone |-> TRUE, lr |-> 0]
\* self.params = None (line 54)
NoneParams == [isNone |-> TRUE, EPOCHS |-> 0, LR |-> 0, LR_DECAY |-> <<1, 1>>,
               DECAY_START_EPOCH |-> 0]

LRValues == {4}
LRDecayValues == {<<1, 2>>}     \* lr_decay as a fraction <<numerator, denominator>>
ParamsValues == [isNone : {FALSE}, EPOCHS : 0..MaxEpochs, LR : LRValues,
                 LR_DECAY : LRDecayValues, DECAY_START_EPOCH : 0..(MaxEpochs - 1)]

\* save_model_every is an unvalidated constructor argument: an integer, or a float
\* such as nan, for which epoch % save_model_every == 0 is False for every epoch
SaveEveryValues == {[nan |-> FALSE, v |-> n] : n \in 0..MaxSaveEvery}
                     \cup {[nan |-> TRUE, v |-> 0]}

\* the batches a loader of n batches yields, in order
Loader(name, n) == [k \in 1..n |-> <<name, k>>]

\* batches the loaders yield: answer_lengths of a batch, and len(outputs) the model returns
BatchLengths == {<<2, 1>>, <<1, 1, 2>>}
OutputLens == {2}
LossValues == {0, 1}

ArtifactNames == {"SAVED_MODEL_FILENAME", "SAVED_PARAMS_FILENAME", "SAVED_VOCAB_FILENAME"}

\* line 171: params[LR] * lr_decay
Mul(lr, d) == (lr * d[1]) \div d[2]

\* line 191: np.power(2.0, loss)
_perplexity_from_loss(x) == 2 ^ x

\* lines 170-171: _set_optimizer(lr_decay)
_set_optimizer(m, p, lr_decay) ==
  IF ~m.callable THEN [err |-> "AttributeError", optimizer |-> NoneOptimizer]  \* self.model.parameters()
  ELSE IF p.isNone THEN [err |-> "TypeError", optimizer |-> NoneOptimizer]      \* self.params[C.LR]
  ELSE [err |-> "ok", optimizer |-> [isNone |-> FALSE, lr |-> Mul(p.LR, lr_decay)]]

\* Dispatch without its else branch: an unknown variant falls into the last branch
DispatchNoElse(m) ==
  IF m.tag = "LM_ANSWERS" THEN [err |-> "ok", binds |-> {"answer_seqs", "answer_lengths"}]
  ELSE IF m.tag = "LM_QUESTION_ANSWERS"
       THEN [err |-> "ok", binds |-> {"answer_seqs", "answer_lengths", "quesion_seqs"}]
  ELSE [err |-> "ok", binds |-> {"answer_seqs", "answer_lengths", "quesion_seqs", "review_seqs"}]

\* lines 95-102 (and 122-129): the names the variant dispatch binds, or the raise
Dispatch(m) ==
  IF m.tag = "LM_ANSWERS" THEN [err |-> "ok", binds |-> {"answer_seqs", "answer_lengths"}]
  ELSE IF m.tag = "LM_QUESTION_ANSWERS"
       THEN [err |-> "ok", binds |-> {"answer_seqs", "answer_lengths", "quesion_seqs"}]
  \* the third branch tests LM_QUESTION_ANSWERS again and is never taken
  ELSE [err |-> "Unimplemented", binds |-> {}]

\* lines 64-87: train_batch(); T is len(outputs) of the model's answer, tf the
\* teacher-forcing draw, x the loss value
train_batch(m, opt, p, lengths, T, tf, x, by) ==
  LET call == [by |-> by,
               question |-> m.tag # "LM_ANSWERS",                   \* line 67
               review |-> m.tag = "LM_QUESTION_ANSWERS_REVIEWS",    \* line 68
               teacher_forcing |-> tf]
      fail(e) == [err |-> e, calls |-> {}, steps |-> 0, loss |-> 0]
  IN IF opt.isNone THEN fail("AttributeError")          \* line 64
     ELSE IF p.isNone THEN fail("TypeError")            \* line 72
     ELSE IF ~m.callable THEN fail("TypeError")         \* line 73
     ELSE IF BatchLoss(lengths, T, SeqMax(lengths)) # "done"  \* line 81
          THEN [err |-> BatchLoss(lengths, T, SeqMax(lengths)), calls |-> {call},
                steps |-> 0, loss |-> 0]
     ELSE [err |-> "ok", calls |-> {call}, steps |-> 1, loss |-> x]   \* lines 82-87

\* lines 151-164: save_model()
save_model(p) ==
  IF p.isNone THEN [err |-> "TypeError", dirs |-> 0, written |-> {}]    \* line 168
  \* line 153 creates the directory; line 157 applies & to a str and a tuple
  ELSE [err |-> "TypeError", dirs |-> 1, written |-> {}]

\* line 114: epoch % self.save_model_every == 0
SaveDue(e, sme) ==
  IF sme.nan THEN "no"
  ELSE IF sme.v = 0 THEN "ZeroDivisionError"
  ELSE IF e % sme.v = 0 THEN "yes" ELSE "no"

\* lines 111, 145: batch_itr % self.print_every == 0
PrintDue(b, pe) ==
  IF pe = 0 THEN "ZeroDivisionError" ELSE IF b % pe = 0 THEN "yes" ELSE "no"

\* __init__ without lines 52-54: the fields keep the values of lines 35 and 38
TrainerInitKeepsFields ==
  /\ \E n \in 0..MaxBatches : dataloader = Loader("dataloader", n)
  /\ \E n \in 0..MaxBatches : dev_loader = Loader("dev_loader", n)
  /\ ctor_params \in ParamsValues
  /\ save_model_every \in SaveEveryValues
  /\ print_every \in 0..MaxPrintEvery
  /\ model = LMModel
  /\ optimizer = NoneOptimizer
  /\ params = ctor_params
  /\ loss = <<>> /\ perplexity = <<>>
  /\ assigned = FALSE
  /\ pc = "idle" /\ epoch = 0 /\ batch_itr = 0 /\ bound = {}
  /\ trainResult = "none" /\ trainErrAt = "" /\ trainSteps = 0 /\ trainFetched = <<>>
  /\ saveAttempts = 0 /\ savedDirs = 0 /\ artifacts = {}
  /\ decayRan = FALSE /\ optSteps = 0 /\ modelCalls = {} /\ directCalls = 0
  /\ evalResult = "none" /\ evalFetched = <<>>
  /\ dev_losses = <<>> /\ dev_perplexities = <<>> /\ evalLogs = 0

\* lines 23-56: the Trainer as __init__ leaves it
TrainerInit ==
  /\ \E n \in 0..MaxBatches : dataloader = Loader("dataloader", n)
  /\ \E n \in 0..MaxBatches : dev_loader = Loader("dev_loader", n)
  /\ ctor_params \in ParamsValues
  /\ save_model_every \in SaveEveryValues
  /\ print_every \in 0..MaxPrintEvery
  /\ model = NoneModel
  /\ optimizer = NoneOptimizer
  /\ params = NoneParams
  /\ loss = <<>> /\ perplexity = <<>>
  /\ assigned = FALSE
  /\ pc = "idle" /\ epoch = 0 /\ batch_itr = 0 /\ bound = {}
  /\ trainResult = "none" /\ trainErrAt = "" /\ trainSteps = 0 /\ trainFetched = <<>>
  /\ saveAttempts = 0 /\ savedDirs = 0 /\ artifacts = {}
  /\ decayRan = FALSE /\ optSteps = 0 /\ modelCalls = {} /\ directCalls = 0
  /\ evalResult = "none" /\ evalFetched = <<>>
  /\ dev_losses = <<>> /\ dev_perplexities = <<>> /\ evalLogs = 0

\* a single idle Trainer, used while _batch_loss alone is run
TrainerOff ==
  /\ dataloader = <<>> /\ dev_loader = <<>>
  /\ ctor_params = NoneParams
  /\ save_model_every = [nan |-> FALSE, v |-> 1]
  /\ print_every = 1
  /\ model = NoneModel /\ optimizer = NoneOptimizer /\ params = NoneParams
  /\ loss = <<>> /\ perplexity = <<>>
  /\ assigned = FALSE
  /\ pc = "off" /\ epoch = 0 /\ batch_itr = 0 /\ bound = {}
  /\ trainResult = "none" /\ trainErrAt = "" /\ trainSteps = 0 /\ trainFetched = <<>>
  /\ saveAttempts = 0 /\ savedDirs = 0 /\ artifacts = {}
  /\ decayRan = FALSE /\ optSteps = 0 /\ modelCalls = {} /\ directCalls = 0
  /\ evalResult = "none" /\ evalFetched = <<>>
  /\ dev_losses = <<>> /\ dev_perplexities = <<>> /\ evalLogs = 0

\* the caller assigns self.model and self.params (left None by lines 52 and 54)
\* before calling a method of the Trainer
Populate ==
  /\ pc = "idle" /\ ~assigned
  /\ trainResult = "none" /\ evalResult = "none" /\ directCalls = 0
  /\ model' \in ModelValues
  /\ params' \in {ctor_params, NoneParams}
  /\ assigned' = TRUE
  /\ UNCHANGED <<blvars, dataloader, dev_loader, ctor_params, save_model_every,
                 print_every, optimizer, loss, perplexity, pc, epoch, batch_itr,
                 bound, trainResult, trainErrAt, trainSteps, trainFetched,
                 saveAttempts, savedDirs, artifacts, decayRan, optSteps,
                 modelCalls, directCalls, evalResult, evalFetched, dev_losses,
                 dev_perplexities, evalLogs>>

\* lines 89-92: train() up to the first iteration of the epoch loop
TrainStart ==
  /\ pc = "idle" /\ trainResult = "none"
  /\ LET r == _set_optimizer(model, params, <<1, 1>>) IN
       /\ optimizer' = IF r.err = "ok" THEN r.optimizer ELSE optimizer
       /\ IF r.err # "ok"
          THEN trainResult' = r.err /\ trainErrAt' = "set_optimizer" /\ pc' = "idle"
          ELSE IF params.EPOCHS = 0
               THEN trainResult' = "done" /\ trainErrAt' = "" /\ pc' = "idle"
               ELSE trainResult' = "running" /\ trainErrAt' = "" /\ pc' = "train_batches"
  /\ epoch' = 0 /\ batch_itr' = 0 /\ bound' = {}
  /\ UNCHANGED <<blvars, dataloader, dev_loader, ctor_params, save_model_every,
                 print_every, model, params, loss, perplexity, assigned,
                 trainSteps, trainFetched, saveAttempts, savedDirs, artifacts,
                 decayRan, optSteps, modelCalls, directCalls, evalResult,
                 evalFetched, dev_losses, dev_perplexities, evalLogs>>

\* the names lines 103-108 read to build the arguments of train_batch
CallReads == {"quesion_seqs", "review_seqs", "answer_seqs", "answer_lengths"}

\* lines 94-113: one iteration of the batch loop of train()
TrainIterResult(lengths, T, tf, x) ==
  LET d == Dispatch(model)
      b == bound \cup d.binds
      r == train_batch(model, optimizer, params, lengths, T, tf, x, "train")
      stop(e, at) == [err |-> e, at |-> at, bound |-> b, calls |-> {}, steps |-> 0,
                      loss |-> loss, perplexity |-> perplexity]
  IN IF d.err # "ok" THEN stop(d.err, "dispatch")                       \* line 102
     ELSE IF ~(CallReads \subseteq b) THEN stop("UnboundLocalError", "call")  \* lines 104-105
     ELSE IF r.err # "ok" THEN [stop(r.err, "batch") EXCEPT !.calls = r.calls]
     ELSE LET rec == [err |-> "ok", at |-> "", bound |-> b, calls |-> r.calls, steps |-> 1,
                      loss |-> Append(loss, r.loss),                                 \* line 109
                      perplexity |-> Append(perplexity, _perplexity_from_loss(r.loss))] \* line 110
          IN IF PrintDue(batch_itr, print_every) = "ZeroDivisionError"     \* line 111
             THEN [rec EXCEPT !.err = "ZeroDivisionError", !.at = "print"]
             ELSE rec

TrainIter ==
  /\ pc = "train_batches" /\ batch_itr < Len(dataloader)
  /\ \E lengths \in BatchLengths, T \in OutputLens, tf \in BOOLEAN, x \in LossValues :
       LET r == TrainIterResult(lengths, T, tf, x) IN
         /\ trainFetched' = Append(trainFetched, dataloader[batch_itr + 1])
         /\ bound' = r.bound
         /\ modelCalls' = modelCalls \cup r.calls
         /\ trainSteps' = trainSteps + r.steps
         /\ optSteps' = optSteps + r.steps
         /\ loss' = r.loss
         /\ perplexity' = r.perplexity
         /\ IF r.err = "ok"
            THEN batch_itr' = batch_itr + 1 /\ UNCHANGED <<pc, trainResult, trainErrAt>>
            ELSE /\ pc' = "idle" /\ trainResult' = r.err /\ trainErrAt' = r.at
                 /\ UNCHANGED batch_itr
  /\ UNCHANGED <<blvars, dataloader, dev_loader, ctor_params, save_model_every,
                 print_every, model, optimizer, params, assigned, epoch,
                 saveAttempts, savedDirs, artifacts, decayRan, directCalls,
                 evalResult, evalFetched, dev_losses, dev_perplexities, evalLogs>>

\* line 117: self.optimizer = self._set_optimizer(lr_decay=...): _set_optimizer
\* sets the field and returns None, which the assignment then stores
DecayAssign(m, p) ==
  LET r == _set_optimizer(m, p, p.LR_DECAY)
  IN [err |-> r.err, optimizer |-> NoneOptimizer]

\* lines 114-117: the end of an epoch
EpochEndResult ==
  LET due == SaveDue(epoch, save_model_every)
      s == save_model(params)
      saved == [attempts |-> IF due = "yes" THEN 1 ELSE 0,
                dirs |-> IF due = "yes" THEN s.dirs ELSE 0,
                written |-> IF due = "yes" THEN s.written ELSE {}]
      dec == DecayAssign(model, params)
      stop(e, at) == [err |-> e, at |-> at, saved |-> saved,
                      optimizer |-> optimizer, decayRan |-> decayRan]
  IN IF due = "ZeroDivisionError"
     THEN stop("ZeroDivisionError", "save_check")                  \* line 114
     ELSE IF due = "yes" /\ s.err # "ok" THEN stop(s.err, "save")  \* line 115
     ELSE IF epoch = params.DECAY_START_EPOCH                      \* line 116
          THEN [stop(dec.err, "decay") EXCEPT
                  !.at = IF dec.err = "ok" THEN "" ELSE "decay",
                  !.optimizer = dec.optimizer, !.decayRan = TRUE]
          ELSE stop("ok", "")

TrainEpochEnd ==
  /\ pc = "train_batches" /\ batch_itr = Len(dataloader)
  /\ LET r == EpochEndResult IN
       /\ saveAttempts' = saveAttempts + r.saved.attempts
       /\ savedDirs' = savedDirs + r.saved.dirs
       /\ artifacts' = artifacts \cup r.saved.written
       /\ optimizer' = r.optimizer
       /\ decayRan' = r.decayRan
       /\ IF r.err # "ok"
          THEN /\ pc' = "idle" /\ trainResult' = r.err /\ trainErrAt' = r.at
               /\ UNCHANGED <<epoch, batch_itr>>
          ELSE IF epoch + 1 < params.EPOCHS                         \* line 92
               THEN /\ epoch' = epoch + 1 /\ batch_itr' = 0
                    /\ UNCHANGED <<pc, trainResult, trainErrAt>>
               ELSE /\ pc' = "idle" /\ trainResult' = "done" /\ trainErrAt' = ""
                    /\ UNCHANGED <<epoch, batch_itr>>
  /\ UNCHANGED <<blvars, dataloader, dev_loader, ctor_params, save_model_every,
                 print_every, model, params, loss, perplexity, assigned, bound,
                 trainSteps, trainFetched, optSteps, modelCalls, directCalls,
                 evalResult, evalFetched, dev_losses, dev_perplexities, evalLogs>>

\* line 121: the loader eval() iterates
EvalLoader == dataloader

\* line 120: eval() entered
EvalStart ==
  /\ pc = "idle" /\ evalResult = "none"
  /\ pc' = "eval_batches" /\ evalResult' = "running"
  /\ batch_itr' = 0
  /\ dev_losses' = <<>> /\ dev_perplexities' = <<>>
  /\ UNCHANGED <<blvars, dataloader, dev_loader, ctor_params, save_model_every,
                 print_every, model, optimizer, params, loss, perplexity,
                 assigned, epoch, bound, trainResult, trainErrAt, trainSteps,
                 trainFetched, saveAttempts, savedDirs, artifacts, decayRan,
                 optSteps, modelCalls, directCalls, evalFetched, evalLogs>>

\* lines 121-147: one iteration of the batch loop of eval()
EvalIterResult(lengths, T, x) ==
  LET d == Dispatch(model)
      call == [by |-> "eval",
               question |-> model.tag # "LM_ANSWERS",                  \* line 132
               review |-> model.tag = "LM_QUESTION_ANSWERS_REVIEWS",   \* line 133
               teacher_forcing |-> FALSE]                              \* line 139
      bl == BatchLoss(lengths, T, SeqMax(lengths))
      stop(e) == [err |-> e, calls |-> {}, dev_losses |-> dev_losses,
                  dev_perplexities |-> dev_perplexities]
  IN IF d.err # "ok" THEN stop(d.err)                                  \* line 129
     ELSE IF ~model.callable THEN stop("TypeError")                    \* line 135
     ELSE IF bl # "done" THEN [stop(bl) EXCEPT !.calls = {call}]       \* line 142
     ELSE LET rec == [err |-> "ok", calls |-> {call},
                      dev_losses |-> Append(dev_losses, x),            \* line 143
                      dev_perplexities |-> Append(dev_perplexities,
                                                  _perplexity_from_loss(x))] \* line 144
          IN IF PrintDue(batch_itr, print_every) = "ZeroDivisionError" \* line 145
             THEN [rec EXCEPT !.err = "ZeroDivisionError"]
             ELSE rec

EvalIter ==
  /\ pc = "eval_batches" /\ batch_itr < Len(EvalLoader)
  /\ \E lengths \in BatchLengths, T \in OutputLens, x \in LossValues :
       LET r == EvalIterResult(lengths, T, x) IN
         /\ evalFetched' = Append(evalFetched, EvalLoader[batch_itr + 1])
         /\ modelCalls' = modelCalls \cup r.calls
         /\ dev_losses' = r.dev_losses
         /\ dev_perplexities' = r.dev_perplexities
         /\ IF r.err = "ok"
            THEN batch_itr' = batch_itr + 1 /\ UNCHANGED <<pc, evalResult>>
            ELSE pc' = "idle" /\ evalResult' = r.err /\ UNCHANGED batch_itr
  /\ UNCHANGED <<blvars, dataloader, dev_loader, ctor_params, save_model_every,
                 print_every, model, optimizer, params, loss, perplexity,
                 assigned, epoch, bound, trainResult, trainErrAt, trainSteps,
                 trainFetched, saveAttempts, savedDirs, artifacts, decayRan,
                 optSteps, directCalls, evalLogs>>

\* lines 148-149: _print_info(...) after the loop, then return
EvalEnd ==
  /\ pc = "eval_batches" /\ batch_itr = Len(EvalLoader)
  /\ evalLogs' = evalLogs + 1
  /\ pc' = "idle" /\ evalResult' = "done"
  /\ UNCHANGED <<blvars, dataloader, dev_loader, ctor_params, save_model_every,
                 print_every, model, optimizer, params, loss, perplexity,
                 assigned, epoch, batch_itr, bound, trainResult, trainErrAt,
                 trainSteps, trainFetched, saveAttempts, savedDirs, artifacts,
                 decayRan, optSteps, modelCalls, directCalls, evalFetched,
                 dev_losses, dev_perplexities>>

\* lines 58-87: train_batch() called by the caller of the Trainer, after train()
\* has ended (train() is what sets the optimizer)
TrainBatchCall ==
  /\ pc = "idle" /\ directCalls < MaxDirectCalls
  /\ trainResult \notin {"none", "running"}
  /\ \E lengths \in BatchLengths, T \in OutputLens, tf \in BOOLEAN, x \in LossValues :
       LET r == train_batch(model, optimizer, params, lengths, T, tf, x, "direct") IN
         /\ modelCalls' = modelCalls \cup r.calls
         /\ optSteps' = optSteps + r.steps
  /\ directCalls' = directCalls + 1
  /\ UNCHANGED <<blvars, dataloader, dev_loader, ctor_params, save_model_every,
                 print_every, model, optimizer, params, loss, perplexity,
                 assigned, pc, epoch, batch_itr, bound, trainResult, trainErrAt,
                 trainSteps, trainFetched, saveAttempts, savedDirs, artifacts,
                 decayRan, evalResult, evalFetched, dev_losses,
                 dev_perplexities, evalLogs>>

Init == TrainerInit /\ BlOff

\* the caller constructs a Trainer, possibly assigns its fields, and trains
Next ==
  \/ Populate
  \/ TrainStart
  \/ TrainIter
  \/ TrainEpochEnd
  \/ TrainBatchCall

Spec == Init /\ [][Next]_vars

\* the caller constructs a Trainer, possibly assigns its fields, and evaluates
NextEval ==
  \/ Populate
  \/ EvalStart
  \/ EvalIter
  \/ EvalEnd

SpecEval == Init /\ [][NextEval]_vars

\* ---------------------------------------------- _batch_loss on its own
InitLoss ==
  /\ TrainerOff
  /\ bl_target_lengths \in LengthSeqs
  /\ bl_T \in 1..MaxT                     \* the model returns at least one timestep
  /\ bl_W \in {w \in 1..MaxT : w >= SeqMax(bl_target_lengths)}  \* targets are padded to the longest answer
  /\ LET s == BatchLossEnter(bl_target_lengths, bl_T, bl_W) IN
       bl_idx = s.idx /\ bl_l = s.l /\ bl_masks = s.masks /\ bl_pc = s.pc

NextLoss == BatchLossStep /\ UNCHANGED tvars

SpecLoss == InitLoss /\ [][NextLoss]_vars

\* ------------------------------------------------------------ properties
TrainEnded == trainResult \notin {"none", "running"}

\* C1 (SpecLoss): at every executed step t of the loss loop the examples whose
\* criterion term is accumulated are exactly those i with
\* target_lengths[i] - t > 0; the counter l starts at target_lengths and has
\* been decremented by 1 for every example after each step; an example that has
\* become inactive never contributes again.
C1_MaskExact ==
  /\ \A k \in 1..Len(bl_masks) :
       bl_masks[k] = {i \in DOMAIN bl_target_lengths : bl_target_lengths[i] - (k - 1) > 0}
  /\ bl_l = [i \in DOMAIN bl_target_lengths |-> bl_target_lengths[i] - bl_idx]
  /\ bl_idx = Len(bl_masks)
  /\ \A j, k \in 1..Len(bl_masks) : j < k => bl_masks[k] \subseteq bl_masks[j]

\* two steps were executed on a batch holding an example of length 0, one that
\* went inactive after the first step and one still active at the second
C1_Witness ==
  /\ Len(bl_masks) >= 2
  /\ \E i \in DOMAIN bl_target_lengths : bl_target_lengths[i] = 0
  /\ bl_masks[1] \ bl_masks[2] # {}
  /\ bl_masks[2] # {}

\* C2 (SpecLoss): the loss loop visits exactly the timesteps 0..len(outputs)-1,
\* each once: it never indexes outputs or the target columns out of range, and
\* when it returns every output timestep has been accumulated.
C2_VisitsEveryOutput ==
  /\ bl_pc # "IndexError"
  /\ bl_pc = "done" => Len(bl_masks) = bl_T

\* C3 (Spec): with model and params populated and one of the three variants
\* configured, a batch taken by train() passes the dispatch, the batch step
\* runs and the model is called with question present iff the variant is not
\* LM_ANSWERS and review present iff it is LM_QUESTION_ANSWERS_REVIEWS.
C3_VariantDispatch ==
  (model.callable /\ ~params.isNone /\ model.tag \in Variants /\ trainFetched # <<>>)
    => /\ trainErrAt \notin {"dispatch", "call"}
       /\ \E c \in modelCalls :
            /\ c.by = "train"
            /\ c.question = (model.tag # "LM_ANSWERS")
            /\ c.review = (model.tag = "LM_QUESTION_ANSWERS_REVIEWS")

\* C4 (Spec): once the branch epoch == DECAY_START_EPOCH of train() has run the
\* trainer's optimizer is an optimizer with learning rate LR * LR_DECAY; before
\* it has run, the optimizer train() uses has learning rate LR.
C4_DecayedOptimizer ==
  /\ decayRan => (~optimizer.isNone /\ optimizer.lr = Mul(params.LR, params.LR_DECAY))
  /\ (trainResult = "running" /\ ~decayRan) => (~optimizer.isNone /\ optimizer.lr = params.LR)

\* C5 (Spec): when train() has called save_model at the end of an epoch the
\* call completes: the checkpoint directory exists and holds the model weights,
\* the params file and the vocabulary file; otherwise nothing is written.
C5_CheckpointComplete ==
  /\ saveAttempts > 0 =>
       (trainErrAt # "save" /\ savedDirs >= 1 /\ artifacts = ArtifactNames)
  /\ saveAttempts = 0 => (savedDirs = 0 /\ artifacts = {})

C7_HistoriesAligned ==
  /\ Len(loss) = trainSteps /\ Len(perplexity) = trainSteps
  /\ \A i \in 1..Len(loss) : perplexity[i] = 2 ^ loss[i]

\* no execution of train() gets past the argument list of line 103: the
\* histories stay empty
C7_NoHistoryEver == loss = <<>> /\ perplexity = <<>> /\ trainSteps = 0

\* C8 (Spec): with a supported variant, when no batch step, checkpoint write or
\* optimizer replacement failed, train() ends in Done having run EPOCHS * B batch
\* steps over the batches in loader order.
C8_RunsEveryBatch ==
  (/\ model.tag \in Variants
   /\ TrainEnded
   /\ trainErrAt \notin {"set_optimizer", "batch", "print", "save_check", "save", "decay"})
    => /\ trainResult = "done"
       /\ trainSteps = params.EPOCHS * Len(dataloader)
       /\ Len(trainFetched) = params.EPOCHS * Len(dataloader)

\* C9 (SpecEval): eval() takes its batches from the dev set given to the
\* constructor, never from the training loader; when it returns it has taken
\* every dev batch once, recorded one loss and one perplexity per dev batch and
\* logged the means once.
C9_EvalUsesDevLoader ==
  /\ \A k \in 1..Len(evalFetched) : evalFetched[k][1] = "dev_loader"
  /\ evalResult = "done" =>
       /\ evalFetched = dev_loader
       /\ Len(dev_losses) = Len(dev_loader)
       /\ Len(dev_perplexities) = Len(dev_loader)
       /\ evalLogs = 1

\* C10 (Spec): as left by __init__ the fields model, optimizer and params are
\* None, and train() called with no field assigned in between fails (in
\* _set_optimizer) before any batch is taken, any batch step is run, any
\* history entry is recorded or any checkpoint is written.
C10_FreshTrainerUnusable ==
  ~assigned =>
    /\ model = NoneModel /\ optimizer = NoneOptimizer /\ params = NoneParams
    /\ trainResult # "none" =>
         /\ trainResult = "AttributeError" /\ trainErrAt = "set_optimizer"
         /\ trainFetched = <<>> /\ trainSteps = 0 /\ optSteps = 0
         /\ loss = <<>> /\ perplexity = <<>>
         /\ saveAttempts = 0 /\ savedDirs = 0 /\ artifacts = {}

C10_Witness == ~assigned /\ trainResult = "AttributeError" /\ trainErrAt = "set_optimizer"

====
